---- MODULE Spec2Model ----
(***************************************************************************)
(* PlanExecutor.execute_dag (src/src/plan_executor.py) together with the   *)
(* two gateways it calls: FiwareClient.execute_query and                   *)
(* DAGCreator.send_message_to_llm.                                         *)
(*                                                                         *)
(* Node ids are strings that the code only ever compares for equality and  *)
(* iterates in the insertion order of the plan mapping.  The plan keys are *)
(* therefore named 1..n in insertion order (node_index[id] = id - 1), and  *)
(* UnknownId stands for an id that is no key of the plan.                  *)
(***************************************************************************)
EXTENDS Integers, Sequences, FiniteSets, TLC

MaxNodes == 3
MaxDepends == 3
MaxLen == 3

UnknownId == 0

VARIABLES dag_nodes_structure, nodes, pc, exc, in_degree, adjacency_matrix,
          in_degree_matrix_copy, topo_queue, topo_order, pos,
          previous_output, llm_response, result, calls

\* one call of DAGCreator.send_message_to_llm
VARIABLES llm_pc, message, my_run, keep_retrieving_run, all_messages, run_status, llm_return

\* one call of FiwareClient.execute_query
VARIABLES fw_pc, query, params, full_url, store_response, fw_return

llm_vars == <<llm_pc, message, my_run, keep_retrieving_run, all_messages, run_status, llm_return>>

fw_vars == <<fw_pc, query, params, full_url, store_response, fw_return>>

gateway_vars == <<llm_vars, fw_vars>>

vars == <<dag_nodes_structure, nodes, pc, exc, in_degree, adjacency_matrix,
          in_degree_matrix_copy, topo_queue, topo_order, pos,
          previous_output, llm_response, result, calls, gateway_vars>>

----------------------------------------------------------------------------
(* Values that flow between the executor, the data store and the oracle.   *)
(* k is the kind of value, n the node it was produced for, src the kind of *)
(* the value it answers.                                                   *)

Val(k, n, src) == [k |-> k, n |-> n, src |-> src]

Unbound == Val("unbound", 0, "none")
Absent == Val("absent", 0, "none")
EmptyMap == Val("empty", 0, "none")
NoneValue == Val("None", 0, "none")
OwnQuery(n) == Val("own_query", n, "none")
ResolvedQuery(n) == Val("resolved_query", n, "none")
ReviewReply(n, x) == Val("review", n, x.k)

FiwareOutcomes == {"ok", "ConnectionError", "Timeout", "HTTPError", "JSONDecodeError"}

RunStatus == {"queued", "in_progress", "completed", "failed"}

\* FiwareClient.execute_query: the decoded body, or the caught exception
\* returned as a value.
execute_query(sent, outcome) ==
    IF outcome = "ok" THEN Val("json", sent.n, sent.k)
    ELSE Val("error", sent.n, sent.k)

\* DAGCreator.send_message_to_llm: apiError is a failure of one of the client
\* calls, created the status of the run when it is created, polled the first
\* status outside queued/in_progress that polling retrieves, parsable whether
\* json.loads accepts the newest message, reply its decoded value.
send_message_to_llm(apiError, created, polled, parsable, reply) ==
    IF apiError THEN EmptyMap
    ELSE IF created \notin {"queued", "in_progress"} THEN EmptyMap
    ELSE IF polled # "completed" THEN EmptyMap
    ELSE IF ~parsable THEN EmptyMap
    ELSE reply

OracleInputs == [apiError : BOOLEAN, created : RunStatus,
                 polled : RunStatus \ {"queued", "in_progress"}, parsable : BOOLEAN]

----------------------------------------------------------------------------
(* The plans handed to execute_dag.                                        *)

NodeIds(dns) == DOMAIN dns

Ascending(n) == [i \in 1..n |-> i]

DependsOf(e, u) ==
    LET s == SelectSeq(e, LAMBDA p : p[1] = u)
    IN  [i \in 1..Len(s) |-> s[i][2]]

EdgeLists(n, k) ==
    {e \in [1..k -> (1..n) \X ({UnknownId} \cup (1..n))] : \A i \in 1..(k - 1) : e[i][1] <= e[i + 1][1]}

DAGNodeRunning(node_id) == [id |-> node_id, output_data |-> NoneValue, error |-> NoneValue,
                            status |-> "running"]

DAGNode(node_id) == [id |-> node_id, output_data |-> NoneValue, error |-> NoneValue,
                     status |-> "pending"]

PlanOf(n, e, at) ==
    [u \in 1..n |-> [description |-> u, depends |-> DependsOf(e, u), atomic |-> at[u],
                     query |-> OwnQuery(u), output |-> Absent]]

----------------------------------------------------------------------------
(* Lines 31-68: in-degrees, adjacency matrix, initial ready queue.          *)

Depends(dns, u) == {dns[u].depends[k] : k \in 1..Len(dns[u].depends)}

UnknownDependsIgnored(dns) == FALSE

UnknownDepends(dns) == \E u \in NodeIds(dns) : \E v \in Depends(dns, u) : v \notin NodeIds(dns)

InDegree(dns) == [u \in NodeIds(dns) |-> Len(dns[u].depends)]

AdjacencyMatrixTransposed(dns) ==
    [j \in NodeIds(dns) |-> [i \in NodeIds(dns) |-> IF i \in Depends(dns, j) THEN 1 ELSE 0]]

AdjacencyMatrix(dns) ==
    [j \in NodeIds(dns) |-> [i \in NodeIds(dns) |-> IF j \in Depends(dns, i) THEN 1 ELSE 0]]

InDegreeMatrix(adj) ==
    [j \in DOMAIN adj |-> Cardinality({i \in DOMAIN adj : adj[i][j] = 1})]

InitialQueueDescending(deg) ==
    LET n == Cardinality(DOMAIN deg)
    IN  SelectSeq([i \in 1..n |-> n + 1 - i], LAMBDA idx : deg[idx] = 0)

InitialQueue(deg) == SelectSeq(Ascending(Cardinality(DOMAIN deg)), LAMBDA idx : deg[idx] = 0)

\* no gateway call is under way
GatewaysIdle ==
    /\ llm_pc = "idle"
    /\ message = Unbound
    /\ my_run = "unbound"
    /\ keep_retrieving_run = "unbound"
    /\ all_messages = Unbound
    /\ run_status = "unbound"
    /\ llm_return = Unbound
    /\ fw_pc = "idle"
    /\ query = Unbound
    /\ params = <<>>
    /\ full_url = <<>>
    /\ store_response = "none"
    /\ fw_return = Unbound

Entered ==
    /\ GatewaysIdle
    /\ nodes = [u \in NodeIds(dag_nodes_structure) |-> DAGNode(u)]
    /\ pc = "build"
    /\ exc = "none"
    /\ in_degree = <<>>
    /\ adjacency_matrix = <<>>
    /\ in_degree_matrix_copy = <<>>
    /\ topo_queue = <<>>
    /\ topo_order = <<>>
    /\ pos = 1
    /\ previous_output = Unbound
    /\ llm_response = Unbound
    /\ result = Unbound
    /\ calls = <<>>

Init ==
    /\ \E n \in 0..MaxNodes : \E k \in 0..MaxDepends :
           \E e \in EdgeLists(n, k) : \E at \in [1..n -> BOOLEAN] :
               dag_nodes_structure = PlanOf(n, e, at)
    /\ Entered

\* The scheduling part of execute_dag (lines 31-79) on its own; it never reads
\* the atomic flag, so its plans are drawn with every node atomic.
InitSched ==
    /\ \E n \in 0..MaxNodes : \E k \in 0..MaxDepends :
           \E e \in EdgeLists(n, k) :
               dag_nodes_structure = PlanOf(n, e, [u \in 1..n |-> TRUE])
    /\ Entered

BuildGraph ==
    /\ pc = "build"
    /\ in_degree' = InDegree(dag_nodes_structure)
    /\ IF UnknownDepends(dag_nodes_structure)
       THEN /\ pc' = "raised"
            /\ exc' = "KeyError"
            /\ UNCHANGED <<adjacency_matrix, in_degree_matrix_copy, topo_queue>>
       ELSE /\ pc' = "kahn"
            /\ adjacency_matrix' = AdjacencyMatrix(dag_nodes_structure)
            /\ in_degree_matrix_copy' = InDegreeMatrix(adjacency_matrix')
            /\ topo_queue' = InitialQueue(in_degree_matrix_copy')
            /\ UNCHANGED exc
    /\ UNCHANGED gateway_vars
    /\ UNCHANGED <<dag_nodes_structure, nodes, topo_order, pos, previous_output,
                   llm_response, result, calls>>

----------------------------------------------------------------------------
(* Lines 70-77: Kahn's loop, one iteration of the while per step.           *)

Decremented(deg, adj, u_idx) ==
    [v_idx \in DOMAIN deg |-> IF adj[u_idx][v_idx] = 1 THEN deg[v_idx] - 1 ELSE deg[v_idx]]

ReleasedOnAnyDecrement(deg, adj, u_idx) ==
    SelectSeq(Ascending(Cardinality(DOMAIN deg)), LAMBDA v_idx : adj[u_idx][v_idx] = 1)

Released(deg, adj, u_idx) ==
    SelectSeq(Ascending(Cardinality(DOMAIN deg)),
              LAMBDA v_idx : adj[u_idx][v_idx] = 1 /\ deg[v_idx] - 1 = 0)

KahnStep ==
    /\ pc = "kahn"
    /\ topo_queue # <<>>
    /\ LET u_idx == Head(topo_queue)
       IN  /\ topo_order' = Append(topo_order, u_idx)
           /\ in_degree_matrix_copy' = Decremented(in_degree_matrix_copy, adjacency_matrix, u_idx)
           /\ topo_queue' = Tail(topo_queue) \o Released(in_degree_matrix_copy, adjacency_matrix, u_idx)
    /\ UNCHANGED gateway_vars
    /\ UNCHANGED <<dag_nodes_structure, nodes, pc, exc, in_degree, adjacency_matrix, pos,
                   previous_output, llm_response, result, calls>>

KahnExit ==
    /\ pc = "kahn"
    /\ topo_queue = <<>>
    /\ pc' = "exec"
    /\ UNCHANGED gateway_vars
    /\ UNCHANGED <<dag_nodes_structure, nodes, exc, in_degree, adjacency_matrix,
                   in_degree_matrix_copy, topo_queue, topo_order, pos, previous_output,
                   llm_response, result, calls>>

----------------------------------------------------------------------------
(* Lines 82-127: the executor loop.  pos is the position of the for loop in *)
(* topo_order; calls is the record of the external calls made so far:      *)
(* op is "query" (data store), "resolve" or "review" (oracle), arg the     *)
(* query or the previous_output placed in the message, seen the outputs of *)
(* the plan as printed into the message, ret the value returned.           *)

Outputs(dns) == [u \in NodeIds(dns) |-> dns[u].output]

Call(op, node_id, arg, seen, ret) ==
    [op |-> op, node |-> node_id, arg |-> arg, seen |-> seen, ret |-> ret]

StoreOutputEverywhere(dns, node_id, value) ==
    [u \in DOMAIN dns |-> [dns[u] EXCEPT !.output = value]]

StoreOutput(dns, node_id, value) == [dns EXCEPT ![node_id].output = value]

StoreReviewDropped(dns, node_id, value) == dns

StoreReview(dns, node_id, value) == [dns EXCEPT ![node_id].output = value]

InLoop == pc = "exec" /\ pos <= Len(topo_order)

IsAtomicInverted(node_details) == ~node_details.atomic

\* line 88
IsAtomic(node_details) == node_details.atomic

LastOutputOfFirst(dns, order) == dns[order[1]].output

\* line 133: dag_nodes_structure[topo_order[-1]]['output']
LastOutput(dns, order) == dns[order[Len(order)]].output

\* lines 88-94
AtomicQuery ==
    /\ InLoop
    /\ IsAtomic(dag_nodes_structure[topo_order[pos]])
    /\ \E outcome \in FiwareOutcomes :
          LET node_id == topo_order[pos]
              node_details == dag_nodes_structure[node_id]
              response == execute_query(node_details.query, outcome)
          IN  /\ dag_nodes_structure' = StoreOutput(dag_nodes_structure, node_id, response)
              /\ previous_output' = response
              /\ calls' = Append(calls, Call("query", node_id, node_details.query, <<>>, response))
    /\ pc' = "review"
    /\ UNCHANGED gateway_vars
    /\ UNCHANGED <<nodes, exc, in_degree, adjacency_matrix, in_degree_matrix_copy, topo_queue,
                   topo_order, pos, llm_response, result>>

\* lines 96-107; reading previous_output before any node has assigned it raises
\* UnboundLocalError at line 104, outside the try.
ResolveStep ==
    /\ InLoop
    /\ ~IsAtomic(dag_nodes_structure[topo_order[pos]])
    /\ IF previous_output = Unbound
       THEN /\ pc' = "raised"
            /\ exc' = "UnboundLocalError"
            /\ UNCHANGED <<llm_response, calls>>
       ELSE /\ \E o \in OracleInputs :
                  LET node_id == topo_order[pos]
                      reply == send_message_to_llm(o.apiError, o.created, o.polled, o.parsable,
                                                   ResolvedQuery(node_id))
                  IN  /\ llm_response' = reply
                      /\ calls' = Append(calls, Call("resolve", node_id, previous_output,
                                                     Outputs(dag_nodes_structure), reply))
            /\ pc' = "cb"
            /\ UNCHANGED exc
    /\ UNCHANGED gateway_vars
    /\ UNCHANGED <<dag_nodes_structure, nodes, in_degree, adjacency_matrix, in_degree_matrix_copy,
                   topo_queue, topo_order, pos, previous_output, result>>

\* lines 108-118; neither callee lets an Exception escape, so the except
\* branch of lines 112-114 is never taken.
QueryResolved ==
    /\ pc = "cb"
    /\ \E outcome \in FiwareOutcomes :
          LET node_id == topo_order[pos]
              response_CB == execute_query(llm_response, outcome)
          IN  /\ dag_nodes_structure' =
                    StoreOutput(StoreOutput(dag_nodes_structure, node_id, response_CB),
                                node_id, llm_response)
              /\ calls' = Append(calls, Call("query", node_id, llm_response, <<>>, response_CB))
    /\ previous_output' = llm_response
    /\ pc' = "review"
    /\ UNCHANGED gateway_vars
    /\ UNCHANGED <<nodes, exc, in_degree, adjacency_matrix, in_degree_matrix_copy, topo_queue,
                   topo_order, pos, llm_response, result>>

\* lines 120-127
Review ==
    /\ pc = "review"
    /\ \E o \in OracleInputs :
          LET node_id == topo_order[pos]
              reply == send_message_to_llm(o.apiError, o.created, o.polled, o.parsable,
                                           ReviewReply(node_id, previous_output))
          IN  /\ llm_response' = reply
              /\ dag_nodes_structure' = StoreReview(dag_nodes_structure, node_id, reply)
              /\ previous_output' = reply
              /\ calls' = Append(calls, Call("review", node_id, previous_output,
                                             Outputs(dag_nodes_structure), reply))
    /\ pos' = pos + 1
    /\ pc' = "exec"
    /\ UNCHANGED gateway_vars
    /\ UNCHANGED <<nodes, exc, in_degree, adjacency_matrix, in_degree_matrix_copy, topo_queue,
                   topo_order, result>>

\* lines 129-133; topo_order[-1] of an empty order raises IndexError.
Return ==
    /\ pc = "exec"
    /\ pos > Len(topo_order)
    /\ IF topo_order = <<>>
       THEN /\ pc' = "raised"
            /\ exc' = "IndexError"
            /\ UNCHANGED result
       ELSE /\ pc' = "done"
            /\ result' = LastOutput(dag_nodes_structure, topo_order)
            /\ UNCHANGED exc
    /\ UNCHANGED gateway_vars
    /\ UNCHANGED <<dag_nodes_structure, nodes, in_degree, adjacency_matrix, in_degree_matrix_copy,
                   topo_queue, topo_order, pos, previous_output, llm_response, calls>>

Next ==
    \/ BuildGraph
    \/ KahnStep
    \/ KahnExit
    \/ AtomicQuery
    \/ ResolveStep
    \/ QueryResolved
    \/ Review
    \/ Return

Spec == Init /\ [][Next]_vars

NextSched ==
    \/ BuildGraph
    \/ KahnStep
    \/ KahnExit

SpecSched == InitSched /\ [][NextSched]_vars

\* the interpreter keeps running the single thread of execute_dag
SpecSchedFair == SpecSched /\ WF_vars(NextSched)

\* the gateways are exercised with no plan under execution
InitGateway ==
    /\ dag_nodes_structure = <<>>
    /\ Entered

exec_vars == <<dag_nodes_structure, nodes, pc, exc, in_degree, adjacency_matrix,
               in_degree_matrix_copy, topo_queue, topo_order, pos,
               previous_output, llm_response, result, calls>>

----------------------------------------------------------------------------
(* DAGCreator.send_message_to_llm, statement by statement                  *)
(* (src/src/dag_creator.py lines 186-232).  run_status is the status of    *)
(* the run at the assistant service; my_run and keep_retrieving_run are    *)
(* the copies the client holds.                                            *)

LlmMessages == {[op |-> o, node |-> n] : o \in {"resolve", "review"}, n \in 1..MaxNodes}

\* what the assistant answers to a message when its run completes
AssistantReply(m) ==
    IF m.op = "resolve" THEN ResolvedQuery(m.node)
    ELSE ReviewReply(m.node, execute_query(OwnQuery(m.node), "ok"))

Active == {"queued", "in_progress"}

Uncaught ==
    /\ llm_pc' = "raised"
    /\ llm_return' = Unbound

\* lines 230-232: except Exception: return {}
Caught ==
    /\ llm_pc' = "returned"
    /\ llm_return' = EmptyMap

\* lines 186-191, called from plan_executor.py lines 107 and 124
SendMessage ==
    /\ llm_pc = "idle"
    /\ \E m \in LlmMessages : message' = m
    /\ llm_pc' = "messages_create"
    /\ UNCHANGED <<my_run, keep_retrieving_run, all_messages, run_status, llm_return>>
    /\ UNCHANGED <<exec_vars, fw_vars>>

\* lines 193-197
MessagesCreate ==
    /\ llm_pc = "messages_create"
    /\ \E ok \in BOOLEAN :
          IF ok THEN llm_pc' = "runs_create" /\ UNCHANGED llm_return
          ELSE Caught
    /\ UNCHANGED <<message, my_run, keep_retrieving_run, all_messages, run_status>>
    /\ UNCHANGED <<exec_vars, fw_vars>>

\* lines 200-204
RunsCreate ==
    /\ llm_pc = "runs_create"
    /\ \/ \E s \in RunStatus :
             /\ my_run' = s
             /\ run_status' = s
             /\ llm_pc' = "while"
             /\ UNCHANGED llm_return
       \/ Caught /\ UNCHANGED <<my_run, run_status>>
    /\ UNCHANGED <<message, keep_retrieving_run, all_messages>>
    /\ UNCHANGED <<exec_vars, fw_vars>>

\* line 206: the test reads my_run, which the loop never refreshes
WhileTest ==
    /\ llm_pc = "while"
    /\ llm_pc' = IF my_run \in Active THEN "retrieve" ELSE "parse"
    /\ UNCHANGED <<message, my_run, keep_retrieving_run, all_messages, run_status, llm_return>>
    /\ UNCHANGED <<exec_vars, fw_vars>>

\* lines 207-212
RunsRetrieve ==
    /\ llm_pc = "retrieve"
    /\ \/ /\ keep_retrieving_run' = run_status
          /\ llm_pc' = "branch"
          /\ UNCHANGED llm_return
       \/ Caught /\ UNCHANGED keep_retrieving_run
    /\ UNCHANGED <<message, my_run, all_messages, run_status>>
    /\ UNCHANGED <<exec_vars, fw_vars>>

\* lines 214-226, without the call of line 218
Branch ==
    /\ llm_pc = "branch"
    /\ llm_pc' = IF keep_retrieving_run = "completed" THEN "list"
                 ELSE IF keep_retrieving_run \in Active THEN "while"
                 ELSE "parse"
    /\ UNCHANGED <<message, my_run, keep_retrieving_run, all_messages, run_status, llm_return>>
    /\ UNCHANGED <<exec_vars, fw_vars>>

\* lines 218-221
MessagesList ==
    /\ llm_pc = "list"
    /\ \/ \E parsable \in BOOLEAN :
             /\ all_messages' = Val(IF parsable THEN "json_text" ELSE "text", message.node,
                                    message.op)
             /\ llm_pc' = "parse"
             /\ UNCHANGED llm_return
       \/ Caught /\ UNCHANGED all_messages
    /\ UNCHANGED <<message, my_run, keep_retrieving_run, run_status>>
    /\ UNCHANGED <<exec_vars, fw_vars>>

\* lines 228-232: all_messages is unbound unless line 218 ran (UnboundLocalError),
\* json.loads raises on text that is no JSON; both are caught at line 230.
Parse ==
    /\ llm_pc = "parse"
    /\ IF all_messages.k = "json_text"
       THEN llm_pc' = "returned" /\ llm_return' = AssistantReply(message)
       ELSE Caught
    /\ UNCHANGED <<message, my_run, keep_retrieving_run, all_messages, run_status>>
    /\ UNCHANGED <<exec_vars, fw_vars>>

\* the assistant service moves the run on; nothing obliges it to
RunProgresses ==
    /\ llm_pc \in {"while", "retrieve", "branch"}
    /\ run_status \in Active
    /\ \E s \in RunStatus \ {"queued"} : s # run_status /\ run_status' = s
    /\ UNCHANGED <<llm_pc, message, my_run, keep_retrieving_run, all_messages, llm_return>>
    /\ UNCHANGED <<exec_vars, fw_vars>>

LlmCode ==
    \/ SendMessage
    \/ MessagesCreate
    \/ RunsCreate
    \/ WhileTest
    \/ RunsRetrieve
    \/ Branch
    \/ MessagesList
    \/ Parse

NextLlm ==
    \/ LlmCode
    \/ RunProgresses

\* the interpreter keeps executing the statements of send_message_to_llm; the
\* assistant service is under no such obligation
SpecLlm == InitGateway /\ [][NextLlm]_vars /\ WF_vars(LlmCode)

----------------------------------------------------------------------------
(* FiwareClient.execute_query, statement by statement                      *)
(* (src/src/fiware_client.py lines 13-73).  A string is the sequence of    *)
(* its lexical tokens: the verb, a blank, the scheme, a host:port pair, a  *)
(* slash, or a run of other characters.                                    *)

Verb == "GET"
Blank == " "
Scheme == "http://"
Slash == "/"
Segment == "seg"

\* the pair the gateway looks for (line 22) and two other pairs
LocalHostPort == "localhost:1026"
HostPorts == {LocalHostPort, "orion:1026", "localhost:1027"}

PathTokens == {Segment, Slash, Blank}

Paths == UNION {[1..len -> PathTokens] : len \in 0..MaxLen}

QueryForms == {"path", "verb", "host", "verb_host"}

\* the query text of each form, as the planner prompt of dag_creator.py
\* lines 77-100 spells it: GET http://host:port/path
QueryText(form, placeholder, path) ==
    (IF form \in {"verb", "verb_host"} THEN <<Verb, Blank>> ELSE <<>>)
    \o (IF form \in {"host", "verb_host"} THEN <<Scheme, placeholder, Slash>> ELSE <<>>)
    \o path

RECURSIVE LStrip(_, _)
\* str.lstrip(t)
LStrip(str, t) == IF str # <<>> /\ Head(str) = t THEN LStrip(Tail(str), t) ELSE str

RECURSIVE RStrip(_, _)
RStrip(str, t) ==
    IF str # <<>> /\ str[Len(str)] = t THEN RStrip(SubSeq(str, 1, Len(str) - 1), t) ELSE str

\* str.strip()
Strip(str) == RStrip(LStrip(str, Blank), Blank)

\* str.startswith(prefix)
StartsWith(str, prefix) == Len(str) >= Len(prefix) /\ SubSeq(str, 1, Len(prefix)) = prefix

\* str[len(prefix):]
Drop(str, k) == SubSeq(str, k + 1, Len(str))

\* str.replace(t, "")
Remove(str, t) == SelectSeq(str, LAMBDA x : x # t)

LocalPrefix == <<Scheme, LocalHostPort, Slash>>

\* a value that is no string: the {} that send_message_to_llm returned and
\* plan_executor.py line 109 passes on as the query
Mapping == "{}"

IsStrAssumed(p) == TRUE

\* isinstance(params, str), lines 18 and 22
IsStr(p) == p # <<Mapping>>

\* whether p has the methods strip and startswith; a dict has not, and calling
\* them raises AttributeError
HasStrMethods(p) == p # <<Mapping>>

\* the outcomes of lines 34-45, with the failures of the two general handlers
\* of lines 63 and 70
WireOutcomes == FiwareOutcomes \cup {"RequestException", "Exception"}

\* line 10
BaseUrl(target) == <<Scheme, target>>

\* line 13, called from plan_executor.py lines 90 and 109 on the client that
\* line 83 builds for the configured host and port
ExecuteQuery ==
    /\ fw_pc = "idle"
    /\ \E form \in QueryForms : \E placeholder \in HostPorts : \E path \in Paths :
       \E target \in HostPorts :
          /\ \/ /\ query' = [form |-> form, placeholder |-> placeholder, path |-> path,
                             target |-> target]
                /\ params' = QueryText(form, placeholder, path)
             \/ /\ query' = [form |-> "not_str", placeholder |-> placeholder,
                             path |-> <<Mapping>>, target |-> target]
                /\ params' = <<Mapping>>
    /\ fw_pc' = "verb"
    /\ UNCHANGED <<full_url, store_response, fw_return>>
    /\ UNCHANGED <<exec_vars, llm_vars>>

\* lines 18-20, outside the try: the methods are called only if the isinstance
\* test to the left of "and" holds
StripVerb ==
    /\ fw_pc = "verb"
    /\ IF IsStr(params) /\ ~HasStrMethods(params)
       THEN fw_pc' = "raised" /\ UNCHANGED params
       ELSE /\ params' = IF IsStr(params) /\ StartsWith(Strip(params), <<Verb>>)
                         THEN Remove(Strip(Drop(Strip(params), 1)), Blank)
                         ELSE params
            /\ fw_pc' = "host"
    /\ UNCHANGED <<query, full_url, store_response, fw_return>>
    /\ UNCHANGED <<exec_vars, llm_vars>>

\* lines 22-24, outside the try as well
StripHost ==
    /\ fw_pc = "host"
    /\ IF IsStr(params) /\ ~HasStrMethods(params)
       THEN fw_pc' = "raised" /\ UNCHANGED params
       ELSE /\ params' = IF IsStr(params) /\ StartsWith(Strip(params), LocalPrefix)
                         THEN LStrip(Drop(Strip(params), Len(LocalPrefix)), Slash)
                         ELSE params
            /\ fw_pc' = "request"
    /\ UNCHANGED <<query, full_url, store_response, fw_return>>
    /\ UNCHANGED <<exec_vars, llm_vars>>

\* lines 26-34: requests.get is given no timeout
SendRequest ==
    /\ fw_pc = "request"
    /\ full_url' = BaseUrl(query.target) \o <<Slash>> \o params
    /\ store_response' = "pending"
    /\ fw_pc' = "waiting"
    /\ UNCHANGED <<query, params, fw_return>>
    /\ UNCHANGED <<exec_vars, llm_vars>>

\* the data store, or the network, answers; nothing obliges it to
StoreResponds ==
    /\ store_response = "pending"
    /\ \E outcome \in WireOutcomes : store_response' = outcome
    /\ UNCHANGED <<fw_pc, query, params, full_url, fw_return>>
    /\ UNCHANGED <<exec_vars, llm_vars>>

\* lines 34-73: the decoded body, or the caught exception as a value
Receive ==
    /\ fw_pc = "waiting"
    /\ store_response \in WireOutcomes
    /\ fw_return' = execute_query(Val("url", 0, "none"), store_response)
    /\ fw_pc' = "returned"
    /\ UNCHANGED <<query, params, full_url, store_response>>
    /\ UNCHANGED <<exec_vars, llm_vars>>

NextFiware ==
    \/ ExecuteQuery
    \/ StripVerb
    \/ StripHost
    \/ SendRequest
    \/ StoreResponds
    \/ Receive

SpecFiware == InitGateway /\ [][NextFiware]_vars

----------------------------------------------------------------------------
(* Vocabulary of the properties, read off the plan and the record of calls. *)

PlanNodes == DOMAIN dag_nodes_structure

Requires(u) ==
    {dag_nodes_structure[u].depends[k] : k \in 1..Len(dag_nodes_structure[u].depends)}

MissingDependency == \E u \in PlanNodes : \E v \in Requires(u) : v \notin PlanNodes

RECURSIVE Closure(_, _)
Closure(R, k) ==
    IF k = 0 THEN R
    ELSE Closure(R \cup {p \in PlanNodes \X PlanNodes :
                            \E b \in PlanNodes : <<p[1], b>> \in R /\ <<b, p[2]>> \in R}, k - 1)

RequiresTransitively ==
    Closure({p \in PlanNodes \X PlanNodes : p[2] \in Requires(p[1])}, Cardinality(PlanNodes))

HasCycle == \E u \in PlanNodes : <<u, u>> \in RequiresTransitively

Scheduled == pc \in {"exec", "cb", "review", "done"} \/ (pc = "raised" /\ exc # "KeyError")

Executing == pc \in {"exec", "cb", "review", "done"}

Emitted(u) == \E i \in 1..Len(topo_order) : topo_order[i] = u

IndexOf(u) == CHOOSE i \in 1..Len(topo_order) : topo_order[i] = u

CallIds == 1..Len(calls)

OracleCall(i) == calls[i].op \in {"resolve", "review"}

\* C1: for an acyclic plan whose dependency ids all exist, every node is in
\* the computed order and each dependency A of a node B has a strictly smaller
\* index in the order than B.
C1_TopologicalOrder ==
    (Scheduled /\ ~MissingDependency /\ ~HasCycle) =>
        \A b \in PlanNodes : \A a \in Requires(b) :
            Emitted(a) /\ Emitted(b) /\ IndexOf(a) < IndexOf(b)

C1_Witness ==
    /\ Scheduled /\ ~MissingDependency /\ ~HasCycle
    /\ Len(topo_order) = 3
    /\ \E b \in PlanNodes : \E a \in Requires(b) : a > b /\ Cardinality(Requires(b)) = 2

\* C2: every call made for a node, and every node the loop is about to run,
\* comes after the review call (whose reply is written as the final output)
\* of each node in its depends list.
C2_DispatchAfterDependencies ==
    /\ \A i \in CallIds : \A d \in Requires(calls[i].node) :
           \E j \in 1..(i - 1) : calls[j].op = "review" /\ calls[j].node = d
    /\ (pc \in {"exec", "cb", "review"} /\ pos <= Len(topo_order)) =>
           \A d \in Requires(topo_order[pos]) :
               \E j \in CallIds : calls[j].op = "review" /\ calls[j].node = d

C2_Witness ==
    \E i \in CallIds : Cardinality(Requires(calls[i].node)) = 2 /\ calls[i].op = "resolve"

\* C3: a plan whose dependency relation contains a cycle makes no call to the
\* data store or to the oracle for any node, and its run does not return.
C3_CyclicPlanRunsNothing ==
    HasCycle => (calls = <<>> /\ pc # "done")

\* C4: the executor is never handed an order that lacks a node of the plan:
\* when the ready queue empties with nodes left over the scheduler fails.
C4_PartialOrderRejected ==
    Executing => \A u \in PlanNodes : Emitted(u)

\* C5: a plan with a dependency id that is no key of the plan fails (KeyError)
\* before any call to the data store or the oracle and before any output is
\* written.
C5_UnknownDependencyFailsFirst ==
    MissingDependency =>
        /\ calls = <<>>
        /\ \A u \in PlanNodes : dag_nodes_structure[u].output = Absent
        /\ pc \in {"build", "raised"}
        /\ (pc = "raised" => exc = "KeyError")

C5_Witness ==
    /\ MissingDependency
    /\ pc = "raised"
    /\ exc = "KeyError"
    /\ \E u \in PlanNodes : Requires(u) = {}

FailedQuery(i) == calls[i].op = "query" /\ calls[i].ret.k = "error"

FailedOracle(i) == OracleCall(i) /\ calls[i].ret = EmptyMap

\* C6: once the data store has reported an error for a node, no call is made
\* for any other node and the run does not return normally.
C6_GatewayErrorHaltsRun ==
    \A i \in CallIds : FailedQuery(i) =>
        /\ \A j \in (i + 1)..Len(calls) : calls[j].node = calls[i].node
        /\ pc # "done"

\* C7: once an oracle call (resolution or review) has failed for a node, no
\* further call is made at all (no retry, no further node) and the run does
\* not return normally.
C7_OracleFailureHaltsRun ==
    \A i \in CallIds : FailedOracle(i) => (i = Len(calls) /\ pc # "done")

\* C8: when the run has ended, every node whose resolution, data-store call
\* or review failed has status "failed" and a recorded error.
C8_FailureRecordedOnNode ==
    pc \in {"done", "raised"} =>
        \A i \in CallIds : (FailedQuery(i) \/ FailedOracle(i)) =>
            /\ nodes[calls[i].node].status = "failed"
            /\ nodes[calls[i].node].error # NoneValue

\* C9: the review request of a node carries the value the data store returned
\* for that node's query, and the output written after a successful review is
\* the reviewed form of that value.
C9_ReviewCarriesRawResult ==
    \A i \in CallIds : calls[i].op = "review" =>
        \E j \in 1..(i - 1) :
            /\ calls[j].op = "query"
            /\ calls[j].node = calls[i].node
            /\ calls[i].arg = calls[j].ret
            /\ (calls[i].ret # EmptyMap => calls[i].ret = ReviewReply(calls[i].node, calls[j].ret))

\* C10: the output stored for a node that has been reviewed is the reply of
\* its review call, not the value the data store returned, and every later
\* oracle request shows that reply as the node's output.
C10_ReviewedOutputStored ==
    \A i \in CallIds : calls[i].op = "review" =>
        /\ dag_nodes_structure[calls[i].node].output = calls[i].ret
        /\ \A j \in 1..(i - 1) :
               (calls[j].op = "query" /\ calls[j].node = calls[i].node) =>
                   dag_nodes_structure[calls[i].node].output # calls[j].ret
        /\ \A j \in (i + 1)..Len(calls) :
               OracleCall(j) => calls[j].seen[calls[i].node] = calls[i].ret

C10_Witness ==
    \E i \in CallIds : \E j \in (i + 1)..Len(calls) :
        /\ calls[i].op = "review"
        /\ calls[i].ret.k = "review"
        /\ calls[j].op = "resolve"
        /\ calls[j].node # calls[i].node
        /\ calls[j].seen[calls[i].node] = calls[i].ret

NoFailure == \A i \in CallIds : ~FailedQuery(i) /\ ~FailedOracle(i)

LastScheduled == topo_order[Len(topo_order)]

\* C11: when execute_dag returns, the value returned is the output stored for
\* the last node of the scheduler's order, which is the reply of that node's
\* review; for an atomic last node and no failure it is the reviewed form of
\* the data-store result of the node's own query.
C11_ReturnsLastOutput ==
    pc = "done" =>
        /\ result = dag_nodes_structure[LastScheduled].output
        /\ calls[Len(calls)].op = "review"
        /\ calls[Len(calls)].node = LastScheduled
        /\ result = calls[Len(calls)].ret
        /\ (NoFailure /\ dag_nodes_structure[LastScheduled].atomic) =>
               result = Val("review", LastScheduled, "json")

C11_Witness ==
    /\ pc = "done"
    /\ NoFailure
    /\ topo_order = <<1, 2>>
    /\ Requires(2) = {1}
    /\ dag_nodes_structure[1].atomic
    /\ dag_nodes_structure[2].atomic
    /\ result = Val("review", 2, "json")

\* C12: the step-resolution request of a non-atomic node shows the reviewed
\* output of each node in its depends list, and the context passed as the
\* previous step's output is the output of one of those dependencies, not of
\* a node that only precedes it in the order.
C12_ResolveContextFromDependencies ==
    \A i \in CallIds : calls[i].op = "resolve" =>
        /\ \A d \in Requires(calls[i].node) :
               \E j \in 1..(i - 1) :
                   /\ calls[j].op = "review"
                   /\ calls[j].node = d
                   /\ calls[i].seen[d] = calls[j].ret
        /\ calls[i].arg = calls[i - 1].ret
        /\ calls[i - 1].node \in Requires(calls[i].node)

StatusMoves == {<<"pending", "running">>, <<"running", "completed">>, <<"running", "failed">>}

NotReached(u) == \A i \in 1..Len(topo_order) : topo_order[i] = u => i > pos

InsertionOrder == [i \in 1..Cardinality(PlanNodes) |-> i]

DistinctDependencies(u) == Cardinality(Requires(u))

RECURSIVE ReferenceKahn(_, _, _)
ReferenceKahn(ready, deg, order) ==
    IF ready = <<>>
    THEN order
    ELSE LET u == Head(ready)
             lowered == [v \in PlanNodes |-> IF u \in Requires(v) THEN deg[v] - 1 ELSE deg[v]]
             freed == SelectSeq(InsertionOrder, LAMBDA v : u \in Requires(v) /\ lowered[v] = 0)
         IN  ReferenceKahn(Tail(ready) \o freed, lowered, Append(order, u))

ReferenceOrder ==
    ReferenceKahn(SelectSeq(InsertionOrder, LAMBDA v : DistinctDependencies(v) = 0),
                  [v \in PlanNodes |-> DistinctDependencies(v)], <<>>)

\* C17: once the scheduling is over, the order is the one the reference Kahn
\* algorithm computes: FIFO ready queue seeded with the in-degree-0 nodes in
\* insertion order, children visited in insertion order and appended at the
\* back exactly when their in-degree reaches zero, in-degree being the number
\* of distinct dependencies.
C17_OrderIsReferenceKahn == Scheduled => topo_order = ReferenceOrder

C17_Witness ==
    /\ Scheduled
    /\ Cardinality(PlanNodes) = 3
    /\ dag_nodes_structure[3].depends = <<1, 1>>
    /\ Requires(2) = {}
    /\ Requires(1) = {}
    /\ topo_order = <<1, 2, 3>>

CallsOf(u) == SelectSeq(calls, LAMBDA c : c.node = u)

Ops(u) == [i \in 1..Len(CallsOf(u)) |-> CallsOf(u)[i].op]

IsPrefix(s, t) == Len(s) <= Len(t) /\ \A i \in 1..Len(s) : s[i] = t[i]

Lifecycle(u) ==
    IF dag_nodes_structure[u].atomic
    THEN <<"query", "review">>
    ELSE <<"resolve", "query", "review">>

Finished(u) == \E i \in 1..Len(topo_order) : topo_order[i] = u /\ i < pos

\* C18: the calls made for an atomic node are one data-store call, whose query
\* is the node's own query field, then one review, and no resolution; the
\* calls made for a non-atomic node are one resolution, one data-store call
\* with the resolution's reply as the query, then one review.
C18_CallsPerNode ==
    \A u \in PlanNodes :
        /\ IsPrefix(Ops(u), Lifecycle(u))
        /\ Finished(u) => Ops(u) = Lifecycle(u)
        /\ \A i \in 1..Len(CallsOf(u)) :
               CallsOf(u)[i].op = "query" =>
                   IF dag_nodes_structure[u].atomic
                   THEN CallsOf(u)[i].arg = dag_nodes_structure[u].query
                   ELSE CallsOf(u)[i].arg = CallsOf(u)[i - 1].ret

C18_Witness ==
    /\ pc = "done"
    /\ topo_order = <<1, 2>>
    /\ dag_nodes_structure[1].atomic
    /\ ~dag_nodes_structure[2].atomic
    /\ Ops(1) = <<"query", "review">>
    /\ Ops(2) = <<"resolve", "query", "review">>
    /\ calls[4].arg = ResolvedQuery(2)

\* C19: the calls of two nodes never interleave: where two consecutive calls
\* belong to different nodes, the earlier one is the review that ends its
\* node, that node's final output is already written, and no call of that
\* node follows.
C19_StrictlySequential ==
    \A i \in CallIds : \A j \in CallIds :
        (i < j /\ calls[i].node # calls[j].node) =>
            /\ \E r \in i..(j - 1) :
                   /\ calls[r].op = "review"
                   /\ calls[r].node = calls[i].node
                   /\ calls[j].op # "query" => calls[j].seen[calls[i].node] = calls[r].ret
            /\ \A k \in CallIds : k > j => calls[k].node # calls[i].node

C19_Witness ==
    /\ pc = "done"
    /\ Len(topo_order) = 3
    /\ \E u \in PlanNodes : ~dag_nodes_structure[u].atomic
    /\ Len(calls) >= 7

NoRepeat(order) == \A i \in 1..Len(order) : \A j \in 1..Len(order) : order[i] = order[j] => i = j

\* C20: for a plan whose dependency ids all exist, the scheduling loop comes to
\* an end, and at all times no node id is twice in the order or in the ready
\* queue, so the order never holds more than one entry per node.
C20_SchedulingTerminates ==
    /\ [](~MissingDependency => NoRepeat(topo_order \o topo_queue))
    /\ [](Len(topo_order) <= Cardinality(PlanNodes))
    /\ <>(~MissingDependency => Scheduled)

C20_Witness ==
    /\ Scheduled
    /\ Cardinality(PlanNodes) = 3
    /\ dag_nodes_structure[1].depends = <<>>
    /\ dag_nodes_structure[2].depends = <<3, 3>>
    /\ dag_nodes_structure[3].depends = <<2>>
    /\ topo_order = <<1>>

\* C15: every oracle round trip that execute_dag starts comes back, so that the
\* run can go on to its end, whatever the assistant service does.
C15_EveryRoundTripEnds == (llm_pc = "messages_create") ~> (llm_pc = "returned")

RequestSent == fw_pc \in {"waiting", "returned"}

\* C16: for every path, whichever of the four forms the query has (bare, with
\* the verb, with a host:port placeholder, with both) and whichever host:port
\* the placeholder names, the URL requested is the configured target followed
\* by a slash and the path.
C16_RewritesToConfiguredTarget ==
    RequestSent => full_url = <<Scheme, query.target, Slash>> \o query.path

\* C21: whenever the loop is about to run a non-atomic node, the previous-step
\* context it reads has been assigned by an earlier node of the run, and no
\* run ends on the read of an unassigned value.
C21_ContextAssignedBeforeRead ==
    /\ (InLoop /\ ~dag_nodes_structure[topo_order[pos]].atomic) => previous_output # Unbound
    /\ exc # "UnboundLocalError"

\* C22: for a plan whose dependency ids all exist, the final read finds a last
\* entry in the order, and the run does not end on that read failing.
C22_FinalReadFindsEntry ==
    ~MissingDependency =>
        /\ (pc = "exec" /\ pos > Len(topo_order)) => topo_order # <<>>
        /\ exc # "IndexError"

Frame(node_details) ==
    <<node_details.description, node_details.depends, node_details.atomic, node_details.query>>

Current(u) == pc \in {"exec", "cb", "review"} /\ pos <= Len(topo_order) /\ topo_order[pos] = u

\* C23: a step changes no description, depends, atomic or query field and adds
\* or removes no node; it changes the output of a node only while that node is
\* the one being executed, so the outputs of the other nodes stay as they are
\* and an output whose review has been written is not written again.
C23_WritesOwnSlotOnly ==
    [][/\ DOMAIN dag_nodes_structure' = DOMAIN dag_nodes_structure
       /\ \A u \in PlanNodes :
              /\ Frame(dag_nodes_structure'[u]) = Frame(dag_nodes_structure[u])
              /\ (dag_nodes_structure'[u].output # dag_nodes_structure[u].output) =>
                     (Current(u) /\ ~Finished(u))
              /\ Finished(u) => dag_nodes_structure'[u].output = dag_nodes_structure[u].output]_vars

C23_Witness ==
    /\ pc = "done"
    /\ topo_order = <<1, 2, 3>>
    /\ ~dag_nodes_structure[2].atomic
    /\ NoFailure
    /\ dag_nodes_structure[1].output = Val("review", 1, "json")
    /\ dag_nodes_structure[2].output = Val("review", 2, "resolved_query")
    /\ dag_nodes_structure[3].output.n = 3

\* C24: send_message_to_llm lists the thread's messages only after a poll has
\* shown the run completed; it returns the decoded reply exactly when the run
\* was created queued or in progress, was seen completed and the reply is
\* JSON, returns the empty mapping in every other case in which it returns,
\* and in no case lets an exception out.
C24_ReplyOnlyAfterCompleted ==
    /\ llm_pc # "raised"
    /\ (llm_pc = "list" \/ all_messages # Unbound) => keep_retrieving_run = "completed"
    /\ llm_pc = "returned" =>
           IF my_run \in Active /\ keep_retrieving_run = "completed"
              /\ all_messages.k = "json_text"
           THEN llm_return = AssistantReply(message)
           ELSE llm_return = EmptyMap

C24_Witness ==
    /\ llm_pc = "returned"
    /\ my_run = "queued"
    /\ keep_retrieving_run = "failed"
    /\ all_messages = Unbound
    /\ llm_return = EmptyMap

====
